---- MODULE Spec2Model ----
(***************************************************************************)
(* access2csv: export the tables (and optionally the views) of an Access   *)
(* database to CSV files through ODBC.                                     *)
(*                                                                         *)
(* The model follows src/access2csv.py.  A run of main() is a sequence of  *)
(* steps (connect, list_objects, selection, makedirs, then export_table    *)
(* for every selected object).  Names are sequences of one-character       *)
(* strings so that sanitize_filename and startswith("MSys") are computed   *)
(* character by character.  The ODBC driver and the file system are the    *)
(* environment: a call into them may succeed or raise the error the code   *)
(* has an except clause for (pyodbc.Error, OSError).                       *)
(***************************************************************************)
EXTENDS Integers, Sequences, FiniteSets, TLC

\* ------------------------------------------------------------------ bounds
MaxRequest == 2      \* longest --tables list
MaxObjects == 2      \* most objects (tables + views) the driver yields
MaxRows    == 2      \* most rows in a table
MaxBatch   == 2      \* largest --batch-size
MaxNameLen == 3      \* longest name handed to sanitize_filename on its own

\* ------------------------------------------------------------ names, chars
Range(s) == {s[i] : i \in 1..Len(s)}

Min(a, b) == IF a < b THEN a ELSE b

\* object names a user may ask for; the two share a sanitized name
NamePool == { <<"a", "/", "b">>,
              <<"a", ":", "b">> }

\* a name with the prefix of Access's system objects
SystemName == <<"M", "S", "y", "s", "Q">>

\* characters of the names sanitize_filename is tried on
Alphabet == {"a", "/", ":", "|", " ", ".", "_"}

\* all sequences over S of length at most n
SeqsUpTo(S, n) == UNION {[1..m -> S] : m \in 0..n}

\* sequences without repetition
Injective(s) == \A i, j \in 1..Len(s) : i # j => s[i] # s[j]

\* [\\/:"*?<>|]
Reserved == {"\\", "/", ":", "\"", "*", "?", "<", ">", "|"}

\* str.strip() with no argument (the ASCII white space tried)
Whitespace == {" ", "\t", "\n", "\r"}

untitled == <<"u", "n", "t", "i", "t", "l", "e", "d">>

csv_ext == <<".", "c", "s", "v">>

MSysPrefix == <<"M", "S", "y", "s">>

\* str.startswith
startswith(s, p) == Len(s) >= Len(p) /\ SubSeq(s, 1, Len(p)) = p

\* ------------------------------------------------------- sanitize_filename
RECURSIVE DropLeading(_, _)
DropLeading(s, chars) ==
    IF s # <<>> /\ Head(s) \in chars THEN DropLeading(Tail(s), chars) ELSE s

RECURSIVE DropTrailing(_, _)
DropTrailing(s, chars) ==
    IF s # <<>> /\ s[Len(s)] \in chars
    THEN DropTrailing(SubSeq(s, 1, Len(s) - 1), chars)
    ELSE s

\* str.strip(chars)
strip(s, chars) == DropTrailing(DropLeading(s, chars), chars)

\* re.sub(r'[\\/:"*?<>|]+', "_", name): every maximal run becomes one "_"
RECURSIVE re_sub(_)
re_sub(s) ==
    IF s = <<>> THEN <<>>
    ELSE IF Head(s) \in Reserved
         THEN <<"_">> \o re_sub(DropLeading(Tail(s), Reserved))
         ELSE <<Head(s)>> \o re_sub(Tail(s))

\* variant: the empty result is returned as it is
sanitize_filename_no_placeholder(name) ==
    strip(strip(re_sub(name), Whitespace), {"."})

sanitize_filename(name) ==
    LET stripped == strip(strip(re_sub(name), Whitespace), {"."})
    IN  IF stripped = <<>> THEN untitled ELSE stripped

\* ------------------------------------------------------------------- state
VARIABLES
    args,        \* parsed command line: tables, include_views, dry_run, batch_size
    pc,          \* the step main() is at (the step it ended in, once it has ended)
    exit_code,   \* the process's exit code, -1 while it runs
    tables,      \* list_objects: the tables kept
    views,       \* list_objects: the views kept
    selected,    \* main: the final selection
    warned,      \* main: the names of the "niet gevonden" warning, <<>> if none
    summary,     \* main: the dry-run summary has been printed
    out_dir,     \* file system: the output directory exists
    files,       \* file system: output path -> the records of the file
    k,           \* main: index in selected of the object being exported
    name,        \* export_table: the object
    out_path,    \* export_table: the output path
    columns,     \* export_table: the column list
    cursor,      \* export_table: the full query's result set and the rows fetched
    total,       \* export_table: rows written so far
    results,     \* main: the (out_path, count) pairs export_table returned
    total_rows,  \* main: sum of the counts
    calls,       \* history: the driver and file-system operations called so far
    last         \* history: the latest such call and how it ended

vars == <<args, pc, exit_code, tables, views, selected, warned, summary,
          out_dir, files, k, name, out_path, columns, cursor, total,
          results, total_rows, calls, last>>

main_vars   == <<tables, views, selected, warned, summary>>
export_vars == <<name, out_path, columns, cursor, total>>
fs_vars     == <<out_dir, files>>
sum_vars    == <<results, total_rows>>

Running == exit_code = -1

\* the process ends with this code, where it stands
Exit(code) == exit_code' = code /\ UNCHANGED <<pc, k>>

\* control moves on to step p
Goto(p) == pc' = p /\ UNCHANGED <<exit_code, k>>

\* a call into the driver or the file system, and how it ended
Call(op, arg, what) == [k |-> k, op |-> op, arg |-> arg, what |-> what]

NoCall == [k |-> 0, op |-> "", arg |-> "", what |-> ""]

Logged(op, arg, what) == last' = Call(op, arg, what) /\ calls' = calls \cup {op}

hist_vars == <<calls, last>>

\* the command lines tried
ArgsSpace ==
    { [tables |-> t, include_views |-> iv, dry_run |-> dr, batch_size |-> b] :
        t  \in {[given |-> FALSE, names |-> <<>>]}
               \cup {[given |-> TRUE, names |-> r] : r \in SeqsUpTo(NamePool, MaxRequest)},
        iv \in BOOLEAN, dr \in BOOLEAN, b \in 1..MaxBatch }

Init ==
    /\ args \in ArgsSpace
    /\ pc = "connect"
    /\ exit_code = -1
    /\ tables = <<>> /\ views = <<>> /\ selected = <<>> /\ warned = <<>>
    /\ summary = FALSE
    /\ out_dir = FALSE
    /\ files = [p \in {} |-> <<>>]
    /\ k = 0
    /\ name = <<>> /\ out_path = <<>> /\ columns = <<>> /\ cursor = [rows |-> <<>>, pos |-> 0]
    /\ total = 0
    /\ results = <<>>
    /\ total_rows = 0
    /\ calls = {}
    /\ last = NoCall

\* ------------------------------------------------------- main: connection
\* main lines 158-176 with connect_via_dsn and connect_via_path.  The options
\* read only here (--version, --dsn, db_path) and the driver's answers are
\* drawn in the step.
Connect ==
    /\ Running /\ pc = "connect"
    /\ UNCHANGED <<args, main_vars, export_vars, fs_vars, sum_vars, hist_vars>>
    /\ \/ Exit(0)                 \* --version
       \/ Exit(2)                 \* no db_path and no --dsn; no driver; no file
       \/ Exit(3)                 \* pyodbc.connect raises pyodbc.Error
       \/ Goto("list")

\* --------------------------------------------------------- list_objects
\* what the driver may yield for tableType="TABLE" and then "VIEW"
DriverNames == NamePool \cup {SystemName, <<>>}

Catalogs ==
    { c \in [t : SeqsUpTo(DriverNames, MaxObjects), v : SeqsUpTo(DriverNames, MaxObjects)] :
        Len(c.t) + Len(c.v) <= MaxObjects /\ Injective(c.t \o c.v) }

IsSystem(n) == startswith(n, MSysPrefix)

list_tables(drv) == SelectSeq(drv, LAMBDA n : n # <<>> /\ ~IsSystem(n))

list_views(drv, include_views) ==
    IF include_views THEN SelectSeq(drv, LAMBDA n : n # <<>>) ELSE <<>>

\* main lines 178-182
ListObjects ==
    /\ Running /\ pc = "list"
    /\ UNCHANGED <<args, selected, warned, summary, export_vars, fs_vars, sum_vars, hist_vars>>
    /\ \/ /\ Exit(3)              \* pyodbc.Error while enumerating
          /\ UNCHANGED <<tables, views>>
       \/ \E c \in Catalogs :
            /\ c.v = <<>> \/ args.include_views
            /\ tables' = list_tables(c.t)
            /\ views' = list_views(c.v, args.include_views)
            /\ Goto("select")

\* ------------------------------------------------------- main: selection
available(tbls, vws, include_views) ==
    Range(tbls \o (IF include_views THEN vws ELSE <<>>))

missing(requested, avail) == SelectSeq(requested, LAMBDA t : t \notin avail)

\* variant: the catalog filtered by the request, in the catalog's order
selection_catalog_order(a, tbls, vws) ==
    LET all == tbls \o (IF a.include_views THEN vws ELSE <<>>)
    IN  IF a.tables.names # <<>>
        THEN SelectSeq(all, LAMBDA t : t \in Range(a.tables.names))
        ELSE all

\* main lines 184-194; "if args.tables" is false for None and for []
selection(a, tbls, vws) ==
    IF a.tables.names # <<>>
    THEN SelectSeq(a.tables.names,
                   LAMBDA t : t \in available(tbls, vws, a.include_views))
    ELSE tbls \o (IF a.include_views THEN vws ELSE <<>>)

warning(a, tbls, vws) ==
    IF a.tables.names # <<>>
    THEN missing(a.tables.names, available(tbls, vws, a.include_views))
    ELSE <<>>

\* variant: the dry-run test before the empty-selection test
select_exit_dry_run_first(sel, dry_run) ==
    IF dry_run THEN 0 ELSE IF sel = <<>> THEN 4 ELSE -1

\* variant: no return after the dry-run summary
select_exit_dry_run_goes_on(sel, dry_run) ==
    IF sel = <<>> THEN 4 ELSE -1

\* main lines 196-205: the exit code main returns after the selection, -1 to go on
select_exit(sel, dry_run) ==
    IF sel = <<>> THEN 4 ELSE IF dry_run THEN 0 ELSE -1

Select ==
    /\ Running /\ pc = "select"
    /\ UNCHANGED <<args, tables, views, export_vars, fs_vars, sum_vars, hist_vars>>
    /\ LET sel  == selection(args, tables, views)
           code == select_exit(sel, args.dry_run)
       IN  /\ selected' = sel
           /\ warned' = warning(args, tables, views)
           /\ summary' = (code = 0)
           /\ IF code = -1 THEN Goto("makedirs") ELSE Exit(code)

\* main lines 207-209: os.makedirs(args.out) outside any try
MainMakedirs ==
    /\ Running /\ pc = "makedirs"
    /\ UNCHANGED <<args, main_vars, export_vars, files, sum_vars>>
    /\ \/ /\ out_dir' = TRUE
          /\ Logged("os.makedirs", "main", "ok")
          /\ pc' = "loop" /\ k' = 1 /\ UNCHANGED exit_code
       \/ /\ Logged("os.makedirs", "main", "OSError")      \* uncaught: traceback, exit code 1
          /\ Exit(1)
          /\ UNCHANGED out_dir

\* ------------------------------------------------------------ export_table
\* the two statements export_table executes
ZeroRows == "SELECT * FROM [name] WHERE 1=0"
AllRows  == "SELECT * FROM [name]"

\* cursor.description after executing sql on object n: the column list the
\* driver reports for that statement
Description(n, sql) == [of |-> n, from |-> sql]

\* row i of object n, as the cursor hands it out
Row(n, i) == [of |-> n, row |-> i]

\* tuple(row)
tuple(row) == <<row.of, row.row>>

\* writer.writerow: one delimited record, for the header and for a row
HeaderRecord(cols) == [header |-> cols]
RowRecord(row)     == [record |-> tuple(row)]

\* the result set of the full query on an object of n rows, in source order
ResultSet(obj, n) == [i \in 1..n |-> Row(obj, i)]

\* cursor.fetchmany(size): the next rows, at most size of them
fetchmany(cur, size) ==
    SubSeq(cur.rows, cur.pos + 1, Min(cur.pos + size, Len(cur.rows)))

\* the cursor once it has handed out n rows
advanced(cur, n) == [cur EXCEPT !.pos = @ + n]

\* variant: the failing object is given up and the loop goes on
sys_exit_skip_object(code) ==
    pc' = "loop" /\ k' = k + 1 /\ UNCHANGED exit_code

\* export_table lines 130-135: sys.exit(code) in the except clauses
sys_exit(code) == Exit(code)

\* an exception no except clause catches: traceback, exit code 1
Uncaught == Exit(1)

\* main lines 212-213 and 227-228: the next selected object, or the end
LoopNext ==
    /\ Running /\ pc = "loop"
    /\ UNCHANGED <<args, main_vars, fs_vars, sum_vars, hist_vars, out_path, columns, cursor, total>>
    /\ IF k <= Len(selected)
       THEN name' = selected[k] /\ Goto("export")
       ELSE UNCHANGED name /\ Exit(0)

\* export_table lines 95-96
ExportEntry ==
    /\ Running /\ pc = "export"
    /\ out_path' = sanitize_filename(name) \o csv_ext
    /\ Goto("probe")
    /\ UNCHANGED <<args, main_vars, fs_vars, sum_vars, hist_vars, name, columns, cursor, total>>

\* export_table lines 99-105: the zero-row probe on col_cursor
Probe ==
    /\ Running /\ pc = "probe"
    /\ UNCHANGED <<args, main_vars, fs_vars, sum_vars, name, out_path, cursor, total>>
    /\ \/ /\ columns' = Description(name, ZeroRows)
          /\ Logged("col_cursor.execute", ZeroRows, "ok")
          /\ Goto("export_makedirs")
       \/ /\ Logged("col_cursor.execute", ZeroRows, "pyodbc.Error")
          /\ Goto("fallback")
          /\ UNCHANGED columns

\* export_table line 107
fallback_sql == ZeroRows

\* export_table lines 105-108: the except clause; an error here is raised
\* outside the try of lines 111-135
Fallback ==
    /\ Running /\ pc = "fallback"
    /\ UNCHANGED <<args, main_vars, fs_vars, sum_vars, name, out_path, cursor, total>>
    /\ \/ /\ columns' = Description(name, fallback_sql)
          /\ Logged("cursor.execute", fallback_sql, "ok")
          /\ Goto("export_makedirs")
       \/ /\ Logged("cursor.execute", fallback_sql, "pyodbc.Error")
          /\ Uncaught
          /\ UNCHANGED columns

\* export_table line 112
ExportMakedirs ==
    /\ Running /\ pc = "export_makedirs"
    /\ UNCHANGED <<args, main_vars, files, sum_vars, export_vars>>
    /\ \/ /\ out_dir' = TRUE
          /\ Logged("os.makedirs", "export_table", "ok")
          /\ Goto("open")
       \/ /\ Logged("os.makedirs", "export_table", "OSError")
          /\ sys_exit(5)
          /\ UNCHANGED out_dir

\* export_table line 114: open(out_path, "w") creates or truncates the file
OpenFile ==
    /\ Running /\ pc = "open"
    /\ UNCHANGED <<args, main_vars, out_dir, sum_vars, export_vars>>
    /\ \/ /\ files' = (out_path :> <<>>) @@ files
          /\ Logged("open", out_path, "ok")
          /\ Goto("header")
       \/ /\ Logged("open", out_path, "OSError")
          /\ sys_exit(5)
          /\ UNCHANGED files

\* export_table lines 115-116
WriteHeader ==
    /\ Running /\ pc = "header"
    /\ UNCHANGED <<args, main_vars, out_dir, sum_vars, export_vars>>
    /\ \/ /\ files' = [files EXCEPT ![out_path] = Append(@, HeaderRecord(columns))]
          /\ Logged("writer.writerow", out_path, "ok")
          /\ Goto("execute")
       \/ /\ Logged("writer.writerow", out_path, "OSError")
          /\ sys_exit(5)
          /\ UNCHANGED files

\* export_table lines 119-120
ExecFull ==
    /\ Running /\ pc = "execute"
    /\ UNCHANGED <<args, main_vars, fs_vars, sum_vars, name, out_path, columns>>
    /\ \/ \E n \in 0..MaxRows :
            /\ cursor' = [rows |-> ResultSet(name, n), pos |-> 0]
            /\ total' = 0
            /\ Logged("cursor.execute", AllRows, "ok")
            /\ Goto("fetch")
       \/ /\ Logged("cursor.execute", AllRows, "pyodbc.Error")
          /\ sys_exit(3)
          /\ UNCHANGED <<cursor, total>>

\* export_table lines 125-127: the records written for a batch of rows
written(rows) == [i \in 1..Len(rows) |-> RowRecord(rows[i])]

\* variant: batches counted instead of rows
count_batches(t, rows) == t + 1

\* export_table line 128: total += len(rows)
add_count(t, rows) == t + Len(rows)

\* export_table lines 121-128: one turn of the fetch loop
FetchBatch ==
    /\ Running /\ pc = "fetch"
    /\ UNCHANGED <<args, main_vars, out_dir, sum_vars, name, out_path, columns>>
    /\ LET rows == fetchmany(cursor, args.batch_size)
           rest == advanced(cursor, Len(rows))
       IN  \/ /\ Logged("cursor.fetchmany", "", "pyodbc.Error")
              /\ sys_exit(3)
              /\ UNCHANGED <<files, cursor, total>>
           \/ /\ rows = <<>>                       \* "if not rows: break"
              /\ Logged("cursor.fetchmany", "", "ok")
              /\ Goto("return")
              /\ UNCHANGED <<files, cursor, total>>
           \/ /\ rows # <<>>
              /\ files' = [files EXCEPT ![out_path] = @ \o written(rows)]
              /\ cursor' = rest
              /\ total' = add_count(total, rows)
              /\ last' = Call("writer.writerow", out_path, "ok")
              /\ calls' = calls \cup {"cursor.fetchmany", "writer.writerow"}
              /\ Goto("fetch")
           \/ /\ rows # <<>>                       \* writerow raises at row j + 1
              /\ \E j \in 0..(Len(rows) - 1) :
                   /\ files' = [files EXCEPT ![out_path] = @ \o written(SubSeq(rows, 1, j))]
                   /\ last' = Call("writer.writerow", out_path, "OSError")
                   /\ sys_exit(5)
              /\ calls' = calls \cup {"cursor.fetchmany", "writer.writerow"}
              /\ cursor' = rest
              /\ UNCHANGED total

\* export_table line 129 and main lines 214-225
ExportReturn ==
    /\ Running /\ pc = "return"
    /\ UNCHANGED <<args, main_vars, fs_vars, export_vars, hist_vars, exit_code>>
    /\ results' = Append(results, [path |-> out_path, count |-> total])
    /\ total_rows' = total_rows + total
    /\ k' = k + 1
    /\ pc' = "loop"

Next ==
    \/ Connect
    \/ ListObjects
    \/ Select
    \/ MainMakedirs
    \/ LoopNext
    \/ ExportEntry
    \/ Probe
    \/ Fallback
    \/ ExportMakedirs
    \/ OpenFile
    \/ WriteHeader
    \/ ExecFull
    \/ FetchBatch
    \/ ExportReturn

Spec == Init /\ [][Next]_vars

\* ------------------------------------------- sanitize_filename on its own
\* export_table entered for one object of any name over Alphabet
InitSanitize ==
    /\ args = [tables |-> [given |-> FALSE, names |-> <<>>], include_views |-> FALSE,
               dry_run |-> FALSE, batch_size |-> 1]
    /\ pc = "export"
    /\ exit_code = -1
    /\ name \in SeqsUpTo(Alphabet, MaxNameLen)
    /\ tables = <<name>> /\ views = <<>> /\ selected = <<name>> /\ warned = <<>>
    /\ summary = FALSE
    /\ out_dir = TRUE
    /\ files = [p \in {} |-> <<>>]
    /\ k = 1
    /\ out_path = <<>> /\ columns = <<>> /\ cursor = [rows |-> <<>>, pos |-> 0]
    /\ total = 0
    /\ results = <<>>
    /\ total_rows = 0
    /\ calls = {"os.makedirs"}
    /\ last = [k |-> 0, op |-> "os.makedirs", arg |-> "main", what |-> "ok"]

SpecSanitize == InitSanitize /\ [][ExportEntry]_vars

\* ------------------------------------------------------------ properties
\* main has computed the selection (and may have ended doing so)
SelectDone == pc \notin {"connect", "list"} /\ ~(pc = "select" /\ Running)

\* the steps of export_table
ExportSteps == {"export", "probe", "fallback", "export_makedirs", "open",
                "header", "execute", "fetch", "return"}

PathOf(n) == sanitize_filename(n) \o csv_ext

\* the paths export_table has returned so far
Returned == {results[i].path : i \in 1..Len(results)}

\* the steps of main's loop
LoopSteps == {"loop"} \cup ExportSteps

\* the steps of export_table from open() on
OpenedSteps == {"open", "header", "execute", "fetch", "return"}

Exists(p) == p \in DOMAIN files

\* C1: a run that is not a dry run and ends with exit code 0 has written as
\* many distinct output files as the final selection has objects.
C1_OneFilePerSelectedObject ==
    (pc = "loop" /\ exit_code = 0 /\ ~args.dry_run)
        => Cardinality(DOMAIN files) = Len(selected)

\* C2: once the export has started, a failed query or fetch ends the process
\* with exit code 3 and a failed directory creation, open or write with exit
\* code 5, and a failure ends it with no other code.
C2_DocumentedExitCodes ==
    (pc \in {"makedirs"} \cup ExportSteps /\ exit_code \notin {-1, 0})
        => /\ last.what = "pyodbc.Error" => exit_code = 3
           /\ last.what = "OSError" => exit_code = 5
           /\ exit_code \in {3, 5}

\* C3: when the fetch loop has ended, the file holds the header and then the
\* N rows of the result set in source order, every row has been fetched, and
\* the count returned is N, whatever the batch size.
C3_AllRowsWhateverTheBatch ==
    pc = "return"
        => /\ files[out_path] = <<HeaderRecord(columns)>> \o
                 [i \in 1..Len(cursor.rows) |-> [record |-> <<name, i>>]]
           /\ total = Len(cursor.rows)
           /\ cursor.pos = Len(cursor.rows)

\* C3 witness: an export of more rows than the batch size has ended its loop
C3_Witness ==
    pc = "return" /\ args.batch_size < Len(cursor.rows) /\ total = Len(cursor.rows)

AvailableNames ==
    Range(tables) \cup (IF args.include_views THEN Range(views) ELSE {})

RequestedAvailable ==
    SelectSeq(args.tables.names, LAMBDA t : t \in AvailableNames)

RequestedMissing ==
    SelectSeq(args.tables.names, LAMBDA t : t \notin AvailableNames)

\* C4 as stated: whenever --tables is given, the final selection is the requested
\* names that are available, in the order of the request, the warning names
\* the requested names that are not, and the run does not end with the
\* empty-selection code while a requested name is available.
C4_ExplicitListGiven ==
    (args.tables.given /\ SelectDone)
        => LET wanted == RequestedAvailable
           IN  /\ selected = wanted
               /\ warned = RequestedMissing
               /\ wanted # <<>> => exit_code # 4

\* C4 amended: the same, whenever --tables is given with at least one name.
C4_ExplicitListWithNames ==
    (args.tables.given /\ args.tables.names # <<>> /\ SelectDone)
        => LET wanted == RequestedAvailable
           IN  /\ selected = wanted
               /\ warned = RequestedMissing
               /\ wanted # <<>> => exit_code # 4

\* C4 witness: two tables requested in the reverse of the catalog's order
C4_Witness ==
    /\ SelectDone /\ args.tables.given
    /\ Len(tables) = 2 /\ Len(selected) = 2
    /\ selected[1] = tables[2] /\ selected[2] = tables[1]

\* C5: no name list_objects returns, and no name selected, carries the
\* system prefix MSys.
C5_NoSystemObject ==
    \A n \in Range(tables) \cup Range(views) \cup Range(selected) : ~IsSystem(n)

\* C6: in a dry run no directory is created, no file is written and no call
\* to the driver's execute or to the file system is made; with a non-empty
\* selection the summary is printed and the run ends with exit code 0.
C6_DryRunWritesNothing ==
    args.dry_run
        => /\ ~out_dir /\ DOMAIN files = {} /\ calls = {} /\ last = NoCall
           /\ (SelectDone /\ selected # <<>>) => (exit_code = 0 /\ summary)

\* C6 witness: a dry run with something selected has ended
C6_Witness ==
    args.dry_run /\ pc = "select" /\ selected # <<>> /\ exit_code = 0 /\ summary

\* C7: with an empty final selection main ends with exit code 4 and has
\* created no directory and no file; exit code 4 means nothing else.
C7_EmptySelectionIsExit4 ==
    /\ (SelectDone /\ selected = <<>>)
          => (exit_code = 4 /\ ~out_dir /\ DOMAIN files = {} /\ calls = {})
    /\ exit_code = 4 => (pc = "select" /\ selected = <<>>)

\* C7 witness: every requested name is missing from a catalog that has tables
C7_Witness ==
    /\ exit_code = 4 /\ tables # <<>>
    /\ args.tables.names # <<>> /\ warned = args.tables.names

\* a call has failed and no except clause has taken the failure over
FatalFailure ==
    /\ last.what \notin {"", "ok"}
    /\ ~(pc = "fallback" /\ Running /\ last.op = "col_cursor.execute")

\* C8: objects are exported one at a time in selection order: while object k
\* is exported every earlier object has returned its result, every file is
\* one of theirs or the one being written, and no call belongs to a later
\* object; a fatal failure ends the run where
\* it stands, with no later object touched; and the file of the object being
\* exported holds exactly what was written to it, also after a failure.
C8_OneAtATimeAndFatal ==
    /\ pc \in LoopSteps
          => /\ Len(results) = k - 1
             /\ \A i \in 1..(k - 1) : results[i].path = PathOf(selected[i])
             /\ last.k <= k
             /\ DOMAIN files \subseteq
                  Returned \cup (IF pc \in OpenedSteps THEN {out_path} ELSE {})
    /\ pc \in ExportSteps => (k <= Len(selected) /\ name = selected[k])
    /\ pc \in OpenedSteps => out_path = PathOf(name)
    /\ FatalFailure => (~Running /\ exit_code # 0 /\ last.k = k)
    /\ pc = "header" => files[out_path] = <<>>
    /\ pc = "execute" => files[out_path] = <<HeaderRecord(columns)>>
    /\ pc = "fetch"
          => \E m \in total..cursor.pos :
                files[out_path] = <<HeaderRecord(columns)>> \o
                                    [i \in 1..m |-> [record |-> <<name, i>>]]

\* C8 witness: a write fails in the first of two selected objects, its file
\* is left with the header and one row, and the second object has no file
C8_Witness ==
    /\ pc = "fetch" /\ exit_code = 5 /\ k = 1 /\ Len(selected) = 2
    /\ Len(files[out_path]) = 2 /\ Len(cursor.rows) = 2
    /\ ~Exists(PathOf(selected[2]))

\* C9: the sanitized name is not empty and holds none of \ / : " * ? < > | ;
\* a name of which only white space and periods are left yields "untitled".
C9_SanitizedName ==
    pc = "probe"
        => LET safe == SubSeq(out_path, 1, Len(out_path) - Len(csv_ext))
           IN  /\ safe # <<>>
               /\ Range(safe) \cap Reserved = {}
               /\ out_path = safe \o csv_ext
               /\ Range(strip(name, Whitespace)) \subseteq {"."} => safe = untitled

\* C9 witness: a name with reserved characters has been sanitized
C9_Witness ==
    /\ pc = "probe" /\ Range(name) \cap Reserved # {}
    /\ out_path # untitled \o csv_ext

\* C10: when the probe has raised, the statement executed in its place is
\* the full-table query and the columns are that query's description.
C10_FallbackReadsFullQuery ==
    (pc = "export_makedirs" /\ last.op = "cursor.execute")
        => (last.arg = AllRows /\ columns = Description(name, AllRows))

====
